---- MODULE Spec2Model ----
(***************************************************************************)
(* Model of neon_billing_alerts (src/src/main.py, src/src/models.py).      *)
(*                                                                         *)
(* main() is a single linear procedure: read the configuration, fetch the  *)
(* project, compute usage and costs, evaluate the alert policy, pick the   *)
(* webhook provider and deliver the message.  pc is the position in main.  *)
(*                                                                         *)
(* Representation of values:                                               *)
(*   - a str is a sequence of one-character strings;                       *)
(*   - an optional value (x | None) is <<>> for None and <<x>> otherwise;  *)
(*   - a float is a fixed-point integer: usage figures and thresholds in   *)
(*     thousandths of their unit (Milli), prices in thousandths of a       *)
(*     dollar per unit, costs in millionths of a dollar;                   *)
(*   - the provider's byte counters are held in units of 2^20 bytes        *)
(*     (BytesPerCount) so that they fit TLC's 32-bit integers.             *)
(***************************************************************************)
EXTENDS Integers, Sequences, FiniteSets, TLC

VARIABLES
    pc,                 \* position in main(), "done" after return, "error" after raise
    err,                \* which ValueError ended the run ("none" while running)
    neon_api_key,       \* main.py:180
    project_id,         \* main.py:185
    webhook_url,        \* main.py:190
    alert_mode_value,   \* main.py:193
    environ,            \* the raw values os.getenv returned for the four threshold names
    thresholds,         \* AlertThresholds, main.py:198
    project,            \* the Project the usage source answered with, main.py:224
    plan,               \* main.py:230
    usage,              \* UsageTotals, main.py:232
    costs,              \* CostBreakdown, main.py:233
    triggers,           \* main.py:234
    evaluated,          \* "no", "returned" or "raised": outcome of _evaluate_alerts
    provider,           \* main.py:236-239
    status,             \* response.status seen by _send_webhook (0 before)
    apiCalls,           \* number of requests to the usage source
    evalCalls,          \* number of calls of _evaluate_alerts
    webhookCalls        \* number of requests to the webhook

vars == <<pc, err, neon_api_key, project_id, webhook_url, alert_mode_value, environ,
          thresholds, project, plan, usage, costs, triggers, evaluated, provider,
          status, apiCalls, evalCalls, webhookCalls>>

-----------------------------------------------------------------------------
(* Bounds of the explored inputs.                                          *)

\* compute_time_seconds is k * ComputeQuantum for k in 0..MaxComputeSteps
MaxComputeSteps == 2
\* data_storage_bytes_hour is k * StorageQuantum for k in 0..MaxStorageSteps
MaxStorageSteps == 1
\* data_transfer_bytes is k * TransferQuantum for k in 0..MaxTransferSteps
MaxTransferSteps == 2
\* usage figures handed directly to the pure functions: 0..MaxUsageSteps halves of a unit
MaxUsageSteps == 2
\* egress figures handed directly to _compute_costs: 0..MaxEgressSteps times 50 GB
MaxEgressSteps == 4
\* cost figures handed directly to _evaluate_alerts: 0..MaxCostSteps half dollars
MaxCostSteps == 1

-----------------------------------------------------------------------------
(* Values.                                                                 *)

None == <<>>
Some(x) == <<x>>

Milli == 1000
BytesPerCount == 1048576

ComputeQuantum == 1800
StorageQuantum == 747520
TransferQuantum == 102400

-----------------------------------------------------------------------------
(* str methods.                                                            *)

IsSpace(c) == c \in {" ", "\t", "\n"}

RECURSIVE lstrip(_)
lstrip(s) == IF s # <<>> /\ IsSpace(Head(s)) THEN lstrip(Tail(s)) ELSE s

RECURSIVE rstrip(_)
rstrip(s) == IF s # <<>> /\ IsSpace(s[Len(s)]) THEN rstrip(SubSeq(s, 1, Len(s) - 1)) ELSE s

strip(s) == rstrip(lstrip(s))

lowerChar(c) ==
    CASE c = "A" -> "a" [] c = "D" -> "d" [] c = "H" -> "h" [] c = "L" -> "l"
      [] c = "S" -> "s" [] c = "T" -> "t" [] c = "W" -> "w" [] c = "Y" -> "y"
      [] OTHER -> c

lower(s) == [i \in 1..Len(s) |-> lowerChar(s[i])]

\* sub in s
contains(s, sub) ==
    \E i \in 1..(Len(s) - Len(sub) + 1) : SubSeq(s, i, i + Len(sub) - 1) = sub

-----------------------------------------------------------------------------
(* float(str): an optional sign, digits, at most one point.  The literals  *)
(* float() also accepts (exponents, "nan", "inf", underscores) are not in  *)
(* the explored environment values.                                        *)

Digits == {"0", "1", "2", "3", "4", "5", "6", "7", "8", "9"}

digitValue(c) ==
    CASE c = "0" -> 0 [] c = "1" -> 1 [] c = "2" -> 2 [] c = "3" -> 3 [] c = "4" -> 4
      [] c = "5" -> 5 [] c = "6" -> 6 [] c = "7" -> 7 [] c = "8" -> 8 [] c = "9" -> 9

unsignedPart(s) == IF s # <<>> /\ Head(s) \in {"-", "+"} THEN Tail(s) ELSE s

\* float(s) does not raise ValueError
isFloatLiteral(s) ==
    LET body == unsignedPart(s)
    IN  /\ \A i \in 1..Len(body) : body[i] \in Digits \cup {"."}
        /\ Cardinality({i \in 1..Len(body) : body[i] = "."}) <= 1
        /\ \E i \in 1..Len(body) : body[i] \in Digits

RECURSIVE digitsValue(_)
digitsValue(s) == IF s = <<>> THEN 0 ELSE 10 * digitsValue(SubSeq(s, 1, Len(s) - 1)) + digitValue(s[Len(s)])

\* float(s) in thousandths
floatValue(s) ==
    LET body == unsignedPart(s)
        dots == {i \in 1..Len(body) : body[i] = "."}
        dot  == IF dots = {} THEN Len(body) + 1 ELSE CHOOSE i \in dots : TRUE
        whole == SubSeq(body, 1, dot - 1)
        frac == SubSeq(body, dot + 1, Len(body))
        frac3 == SubSeq(frac \o <<"0", "0", "0">>, 1, 3)
        magnitude == digitsValue(whole) * Milli + digitsValue(frac3)
    IN  IF s # <<>> /\ Head(s) = "-" THEN 0 - magnitude ELSE magnitude

\* _parse_threshold turning an unparseable value into None instead of raising
_parse_threshold_lenient(raw_value) ==
    IF raw_value = None \/ strip(raw_value[1]) = <<>>
    THEN [raised |-> FALSE, value |-> None]
    ELSE IF isFloatLiteral(strip(raw_value[1]))
         THEN [raised |-> FALSE, value |-> Some(floatValue(strip(raw_value[1])))]
         ELSE [raised |-> FALSE, value |-> None]

\* _parse_threshold(name) for the value os.getenv(name) returned:
\* the float, None, or "ValueError"
_parse_threshold(raw_value) ==
    IF raw_value = None \/ strip(raw_value[1]) = <<>>
    THEN [raised |-> FALSE, value |-> None]
    ELSE IF isFloatLiteral(strip(raw_value[1]))
         THEN [raised |-> FALSE, value |-> Some(floatValue(strip(raw_value[1])))]
         ELSE [raised |-> TRUE, value |-> None]

-----------------------------------------------------------------------------
(* models.py                                                               *)

S_always == <<"a", "l", "w", "a", "y", "s">>
S_thresholds == <<"t", "h", "r", "e", "s", "h", "o", "l", "d", "s">>
S_slack == <<"s", "l", "a", "c", "k">>
S_discord == <<"d", "i", "s", "c", "o", "r", "d">>
S_scale == <<"s", "c", "a", "l", "e">>
S_launch == <<"l", "a", "u", "n", "c", "h">>

\* prices in thousandths of a dollar per unit, free allowances in thousandths of a unit
PLAN_CATALOG ==
    (S_scale :> [storage_gb_month |-> 350, compute_cu_hour |-> 222, egress_gb |-> 100,
                 free_storage_gb_month |-> 0, free_compute_cu_hour |-> 0,
                 free_egress_gb |-> 100 * Milli])
    @@
    (S_launch :> [storage_gb_month |-> 350, compute_cu_hour |-> 106, egress_gb |-> 100,
                  free_storage_gb_month |-> 0, free_compute_cu_hour |-> 0,
                  free_egress_gb |-> 100 * Milli])

NoThresholds ==
    [max_spend_usd |-> None, max_cu_usage |-> None,
     max_storage_gb_month |-> None, max_egress_gb |-> None]

ThresholdNames == <<"max_spend_usd", "max_cu_usage", "max_storage_gb_month", "max_egress_gb">>

-----------------------------------------------------------------------------
(* The pure functions of main.py.                                          *)

max(a, b) == IF a >= b THEN a ELSE b

\* 1024.0**3 bytes, in counts
CountsPerGiB == 1073741824 \div BytesPerCount

_compute_usage(p) ==
    [compute_cu_hours |-> (p.compute_time_seconds * Milli) \div 3600,
     storage_gb_month |-> ((p.data_storage_bytes_hour * Milli) \div CountsPerGiB) \div 730,
     egress_gb |-> (p.data_transfer_bytes * Milli) \div CountsPerGiB]

\* _compute_costs without the max(0.0, ...) floor
_compute_costs_noFloor(plan_name, u) ==
    LET pricing == PLAN_CATALOG[plan_name]
    IN  [compute_cost |-> (u.compute_cu_hours - pricing.free_compute_cu_hour) * pricing.compute_cu_hour,
         storage_cost |-> (u.storage_gb_month - pricing.free_storage_gb_month) * pricing.storage_gb_month,
         egress_cost |-> (u.egress_gb - pricing.free_egress_gb) * pricing.egress_gb]

_compute_costs(plan_name, u) ==
    LET pricing == PLAN_CATALOG[plan_name]
        billable_compute == max(0, u.compute_cu_hours - pricing.free_compute_cu_hour)
        billable_storage == max(0, u.storage_gb_month - pricing.free_storage_gb_month)
        billable_egress == max(0, u.egress_gb - pricing.free_egress_gb)
    IN  [compute_cost |-> billable_compute * pricing.compute_cu_hour,
         storage_cost |-> billable_storage * pricing.storage_gb_month,
         egress_cost |-> billable_egress * pricing.egress_gb]

\* the threshold checks comparing with > instead of >=
thresholdTriggers_strict(t, u, c) ==
    LET total_cost_value == c.compute_cost + c.storage_cost + c.egress_cost
        t1 == IF t.max_spend_usd # None /\ total_cost_value > t.max_spend_usd[1] * Milli
              THEN << <<"total_cost>=", t.max_spend_usd[1]>> >>
              ELSE <<>>
        t2 == IF t.max_cu_usage # None /\ u.compute_cu_hours > t.max_cu_usage[1]
              THEN Append(t1, <<"compute_cu_hours>=", t.max_cu_usage[1]>>)
              ELSE t1
        t3 == IF t.max_storage_gb_month # None
                 /\ u.storage_gb_month > t.max_storage_gb_month[1]
              THEN Append(t2, <<"storage_gb_month>=", t.max_storage_gb_month[1]>>)
              ELSE t2
        t4 == IF t.max_egress_gb # None /\ u.egress_gb > t.max_egress_gb[1]
              THEN Append(t3, <<"egress_gb>=", t.max_egress_gb[1]>>)
              ELSE t3
    IN  t4

\* main.py:83-114: the four checks in order, every match appended.  A spend
\* threshold is in thousandths of a dollar, the costs in millionths.
thresholdTriggers(t, u, c) ==
    LET total_cost_value == c.compute_cost + c.storage_cost + c.egress_cost
        t1 == IF t.max_spend_usd # None /\ total_cost_value >= t.max_spend_usd[1] * Milli
              THEN << <<"total_cost>=", t.max_spend_usd[1]>> >>
              ELSE <<>>
        t2 == IF t.max_cu_usage # None /\ u.compute_cu_hours >= t.max_cu_usage[1]
              THEN Append(t1, <<"compute_cu_hours>=", t.max_cu_usage[1]>>)
              ELSE t1
        t3 == IF t.max_storage_gb_month # None
                 /\ u.storage_gb_month >= t.max_storage_gb_month[1]
              THEN Append(t2, <<"storage_gb_month>=", t.max_storage_gb_month[1]>>)
              ELSE t2
        t4 == IF t.max_egress_gb # None /\ u.egress_gb >= t.max_egress_gb[1]
              THEN Append(t3, <<"egress_gb>=", t.max_egress_gb[1]>>)
              ELSE t3
    IN  t4

\* _evaluate_alerts with the no-threshold check placed before the mode test
_evaluate_alerts_checkFirst(mode, t, u, c) ==
    IF /\ t.max_spend_usd = None
       /\ t.max_cu_usage = None
       /\ t.max_storage_gb_month = None
       /\ t.max_egress_gb = None
    THEN [raised |-> TRUE, value |-> <<>>]
    ELSE IF mode = S_always
         THEN [raised |-> FALSE, value |-> << <<"alert_mode=always">> >>]
         ELSE [raised |-> FALSE, value |-> thresholdTriggers(t, u, c)]

\* _evaluate_alerts without the no-threshold check: an empty list instead of the error
_evaluate_alerts_noCheck(mode, t, u, c) ==
    IF mode = S_always
    THEN [raised |-> FALSE, value |-> << <<"alert_mode=always">> >>]
    ELSE [raised |-> FALSE, value |-> thresholdTriggers(t, u, c)]

\* the list returned, or raised = TRUE for the ValueError of main.py:79
_evaluate_alerts(mode, t, u, c) ==
    IF mode = S_always
    THEN [raised |-> FALSE, value |-> << <<"alert_mode=always">> >>]
    ELSE IF /\ t.max_spend_usd = None
            /\ t.max_cu_usage = None
            /\ t.max_storage_gb_month = None
            /\ t.max_egress_gb = None
         THEN [raised |-> TRUE, value |-> <<>>]
         ELSE [raised |-> FALSE, value |-> thresholdTriggers(t, u, c)]

-----------------------------------------------------------------------------
(* What the collaborators can supply.                                      *)

\* os.getenv of a required setting: unset, blank, or a value with padding
RequiredEnv == {None, Some(<<" ">>), Some(<<" ", "k", "1", " ">>)}

\* os.getenv("WEBHOOK_URL")
WebhookEnv ==
    {None, Some(<<" ", " ">>),
     Some(<<" ", "h", "/", "S", "l", "a", "c", "k", "/", "x">>),
     Some(<<"h", "/", "d", "i", "s", "c", "o", "r", "d">>),
     Some(<<"h", "/", "t", "e", "a", "m", "s">>)}

\* os.getenv("ALERT_MODE"), None when unset
AlertModeEnv ==
    {None, Some(S_always), Some(<<" ", "T", "h", "r", "e", "s", "h", "o", "l", "d", "s", " ">>),
     Some(<<"w", "e", "e", "k", "l", "y">>), Some(<<" ">>)}

\* os.getenv of a threshold setting
ThresholdEnv ==
    {None, Some(<<>>), Some(<<" ">>), Some(<<"0">>), Some(<<" ", "1", " ">>),
     Some(<<"-", "1">>), Some(<<"1", "0", "x">>)}

\* project.owner.subscription_type.value
SubscriptionTypes == {S_scale, <<"L", "a", "u", "n", "c", "h">>, <<"f", "r", "e", "e">>}

Projects ==
    [subscription_type : SubscriptionTypes,
     compute_time_seconds : {k * ComputeQuantum : k \in 0..MaxComputeSteps},
     data_storage_bytes_hour : {k * StorageQuantum : k \in 0..MaxStorageSteps},
     data_transfer_bytes : {k * TransferQuantum : k \in 0..MaxTransferSteps}]

\* response.status of the webhook request
Statuses == {200, 204, 300, 500}

-----------------------------------------------------------------------------
(* main()                                                                  *)

NoProject ==
    [subscription_type |-> <<>>, compute_time_seconds |-> 0,
     data_storage_bytes_hour |-> 0, data_transfer_bytes |-> 0]
NoUsage == [compute_cu_hours |-> 0, storage_gb_month |-> 0, egress_gb |-> 0]
NoCosts == [compute_cost |-> 0, storage_cost |-> 0, egress_cost |-> 0]

Init ==
    /\ pc = "api_key"
    /\ err = "none"
    /\ neon_api_key = <<>>
    /\ project_id = <<>>
    /\ webhook_url = <<>>
    /\ alert_mode_value = <<>>
    /\ environ = <<>>
    /\ thresholds = NoThresholds
    /\ project = NoProject
    /\ plan = <<>>
    /\ usage = NoUsage
    /\ costs = NoCosts
    /\ triggers = <<>>
    /\ evaluated = "no"
    /\ provider = <<>>
    /\ status = 0
    /\ apiCalls = 0
    /\ evalCalls = 0
    /\ webhookCalls = 0

\* raise ValueError(...)
Raise(what) == pc' = "error" /\ err' = what

configVars == <<neon_api_key, project_id, webhook_url, alert_mode_value, environ, thresholds>>
dataVars == <<project, plan, usage, costs>>
alertVars == <<triggers, evaluated, provider>>
ioVars == <<status, apiCalls, evalCalls, webhookCalls>>

ReadApiKey ==
    /\ pc = "api_key"
    /\ \E raw \in RequiredEnv :
          IF raw = None \/ strip(raw[1]) = <<>>
          THEN Raise("NEON_API_KEY") /\ UNCHANGED neon_api_key
          ELSE neon_api_key' = strip(raw[1]) /\ pc' = "project_id" /\ UNCHANGED err
    /\ UNCHANGED <<project_id, webhook_url, alert_mode_value, environ, thresholds>>
    /\ UNCHANGED <<dataVars, alertVars, ioVars>>

ReadProjectId ==
    /\ pc = "project_id"
    /\ \E raw \in RequiredEnv :
          IF raw = None \/ strip(raw[1]) = <<>>
          THEN Raise("NEON_PROJECT_ID") /\ UNCHANGED project_id
          ELSE project_id' = strip(raw[1]) /\ pc' = "webhook_url" /\ UNCHANGED err
    /\ UNCHANGED <<neon_api_key, webhook_url, alert_mode_value, environ, thresholds>>
    /\ UNCHANGED <<dataVars, alertVars, ioVars>>

ReadWebhookUrl ==
    /\ pc = "webhook_url"
    /\ \E raw \in WebhookEnv :
          IF raw = None \/ strip(raw[1]) = <<>>
          THEN Raise("WEBHOOK_URL") /\ UNCHANGED webhook_url
          ELSE webhook_url' = strip(raw[1]) /\ pc' = "alert_mode" /\ UNCHANGED err
    /\ UNCHANGED <<neon_api_key, project_id, alert_mode_value, environ, thresholds>>
    /\ UNCHANGED <<dataVars, alertVars, ioVars>>

ReadAlertMode ==
    /\ pc = "alert_mode"
    /\ \E raw \in AlertModeEnv :
          LET alert_mode_env == IF raw = None THEN S_always ELSE raw[1]
              value == lower(strip(alert_mode_env))
          IN  IF value \notin {S_always, S_thresholds}
              THEN Raise("ALERT_MODE") /\ UNCHANGED alert_mode_value
              ELSE alert_mode_value' = value /\ pc' = "thresholds" /\ UNCHANGED err
    /\ UNCHANGED <<neon_api_key, project_id, webhook_url, environ, thresholds>>
    /\ UNCHANGED <<dataVars, alertVars, ioVars>>

\* one _parse_threshold call of the AlertThresholds(...) construction, in field order
ParseThreshold ==
    /\ pc = "thresholds"
    /\ \E raw \in ThresholdEnv :
          LET i == Len(environ) + 1
              parsed == _parse_threshold(raw)
          IN  /\ environ' = Append(environ, raw)
              /\ IF parsed.raised
                 THEN Raise("threshold_not_a_number") /\ UNCHANGED thresholds
                 ELSE /\ thresholds' = [thresholds EXCEPT ![ThresholdNames[i]] = parsed.value]
                      /\ pc' = IF i = 4 THEN "conflict" ELSE "thresholds"
                      /\ UNCHANGED err
    /\ UNCHANGED <<neon_api_key, project_id, webhook_url, alert_mode_value>>
    /\ UNCHANGED <<dataVars, alertVars, ioVars>>

\* the conflict test by truthiness (any(thresholds)) instead of "is not None"
anyThresholdSet_truthy(t) ==
    \E i \in 1..4 : t[ThresholdNames[i]] # None /\ t[ThresholdNames[i]][1] # 0

\* any(threshold is not None for threshold in (...))
anyThresholdSet(t) == \E i \in 1..4 : t[ThresholdNames[i]] # None

CheckConflict ==
    /\ pc = "conflict"
    /\ IF alert_mode_value = S_always /\ anyThresholdSet(thresholds)
       THEN Raise("always_with_thresholds")
       ELSE pc' = "fetch" /\ UNCHANGED err
    /\ UNCHANGED <<configVars, dataVars, alertVars, ioVars>>

\* neon_api.project(project_id).project: one blocking request, which may fail
FetchProject ==
    /\ pc = "fetch"
    /\ apiCalls' = apiCalls + 1
    /\ \/ \E p \in Projects : project' = p /\ pc' = "plan" /\ UNCHANGED err
       \/ Raise("usage_source") /\ UNCHANGED project
    /\ UNCHANGED <<configVars, plan, usage, costs, alertVars, status, evalCalls, webhookCalls>>

CheckPlan ==
    /\ pc = "plan"
    /\ LET plan_value == lower(project.subscription_type)
       IN  IF plan_value \notin DOMAIN PLAN_CATALOG
           THEN Raise("plan") /\ UNCHANGED plan
           ELSE plan' = plan_value /\ pc' = "usage" /\ UNCHANGED err
    /\ UNCHANGED <<configVars, project, usage, costs, alertVars, ioVars>>

ComputeUsage ==
    /\ pc = "usage"
    /\ usage' = _compute_usage(project)
    /\ pc' = "costs"
    /\ UNCHANGED <<err, configVars, project, plan, costs, alertVars, ioVars>>

ComputeCosts ==
    /\ pc = "costs"
    /\ costs' = _compute_costs(plan, usage)
    /\ pc' = "evaluate"
    /\ UNCHANGED <<err, configVars, project, plan, usage, alertVars, ioVars>>

EvaluateAlerts ==
    /\ pc = "evaluate"
    /\ evalCalls' = evalCalls + 1
    /\ LET result == _evaluate_alerts(alert_mode_value, thresholds, usage, costs)
       IN  IF result.raised
           THEN Raise("no_thresholds") /\ evaluated' = "raised" /\ UNCHANGED triggers
           ELSE /\ triggers' = result.value
                /\ evaluated' = "returned"
                /\ pc' = "provider"
                /\ UNCHANGED err
    /\ UNCHANGED <<configVars, dataVars, provider, status, apiCalls, webhookCalls>>

\* the provider test made only after the request went out with the default payload
SelectProvider_afterSend ==
    /\ pc = "provider"
    /\ LET lowered == lower(webhook_url)
       IN  IF contains(lowered, S_slack)
           THEN provider' = S_slack /\ pc' = "notify" /\ UNCHANGED <<err, webhookCalls>>
           ELSE IF contains(lowered, S_discord)
                THEN provider' = S_discord /\ pc' = "notify" /\ UNCHANGED <<err, webhookCalls>>
                ELSE /\ webhookCalls' = webhookCalls + 1
                     /\ Raise("unsupported_webhook_url")
                     /\ UNCHANGED provider
    /\ UNCHANGED <<configVars, dataVars, triggers, evaluated, status, apiCalls, evalCalls>>

SelectProvider ==
    /\ pc = "provider"
    /\ LET lowered == lower(webhook_url)
       IN  IF contains(lowered, S_slack)
           THEN provider' = S_slack /\ pc' = "notify" /\ UNCHANGED err
           ELSE IF contains(lowered, S_discord)
                THEN provider' = S_discord /\ pc' = "notify" /\ UNCHANGED err
                ELSE Raise("unsupported_webhook_url") /\ UNCHANGED provider
    /\ UNCHANGED <<configVars, dataVars, triggers, evaluated, ioVars>>

\* main without the "if not triggers: return" guard
CheckTriggers_noGuard ==
    /\ pc = "notify"
    /\ pc' = "send"
    /\ UNCHANGED <<err, configVars, dataVars, alertVars, ioVars>>

\* if not triggers: return
CheckTriggers ==
    /\ pc = "notify"
    /\ pc' = IF triggers = <<>> THEN "done" ELSE "send"
    /\ UNCHANGED <<err, configVars, dataVars, alertVars, ioVars>>

\* _send_webhook trying again after a failed delivery
SendWebhook_retry ==
    /\ pc = "send"
    /\ webhookCalls' = webhookCalls + 1
    /\ \E st \in Statuses :
          /\ status' = st
          /\ IF st >= 300
             THEN IF webhookCalls' < 2 THEN UNCHANGED <<pc, err>> ELSE Raise("delivery")
             ELSE pc' = "done" /\ UNCHANGED err
    /\ UNCHANGED <<configVars, dataVars, alertVars, apiCalls, evalCalls>>

\* _render_markdown, then _send_webhook: one request, ValueError when status >= 300
SendWebhook ==
    /\ pc = "send"
    /\ webhookCalls' = webhookCalls + 1
    /\ \E st \in Statuses :
          /\ status' = st
          /\ IF st >= 300 THEN Raise("delivery") ELSE pc' = "done" /\ UNCHANGED err
    /\ UNCHANGED <<configVars, dataVars, alertVars, apiCalls, evalCalls>>

Next ==
    \/ ReadApiKey
    \/ ReadProjectId
    \/ ReadWebhookUrl
    \/ ReadAlertMode
    \/ ParseThreshold
    \/ CheckConflict
    \/ FetchProject
    \/ CheckPlan
    \/ ComputeUsage
    \/ ComputeCosts
    \/ EvaluateAlerts
    \/ SelectProvider
    \/ CheckTriggers
    \/ SendWebhook

Spec == Init /\ [][Next]_vars

-----------------------------------------------------------------------------
(* _evaluate_alerts over arbitrary arguments: the run starts at the call   *)
(* of main.py:234 with any mode, thresholds, usage and costs, and goes on  *)
(* through the rest of main.                                               *)

UsageFigures == {k * (Milli \div 2) : k \in 0..MaxUsageSteps}
CostFigures == {k * 250 * Milli : k \in 0..MaxCostSteps}
ThresholdValues == {None, Some(0), Some(Milli \div 2)}

InitEval ==
    /\ pc = "evaluate"
    /\ err = "none"
    /\ neon_api_key = <<"k", "1">>
    /\ project_id = <<"k", "1">>
    /\ webhook_url \in {strip(w[1]) : w \in {v \in WebhookEnv : v # None /\ strip(v[1]) # <<>>}}
    /\ alert_mode_value \in {S_always, S_thresholds}
    /\ environ = <<>>
    /\ thresholds \in [max_spend_usd : ThresholdValues, max_cu_usage : ThresholdValues,
                       max_storage_gb_month : ThresholdValues, max_egress_gb : ThresholdValues]
    /\ project = NoProject
    /\ plan = S_scale
    /\ usage \in [compute_cu_hours : UsageFigures, storage_gb_month : UsageFigures,
                  egress_gb : UsageFigures]
    /\ costs \in [compute_cost : CostFigures, storage_cost : CostFigures,
                  egress_cost : CostFigures]
    /\ triggers = <<>>
    /\ evaluated = "no"
    /\ provider = <<>>
    /\ status = 0
    /\ apiCalls = 1
    /\ evalCalls = 0
    /\ webhookCalls = 0

NextEval ==
    \/ EvaluateAlerts
    \/ SelectProvider
    \/ CheckTriggers
    \/ SendWebhook

EvalSpec == InitEval /\ [][NextEval]_vars

-----------------------------------------------------------------------------
(* _compute_costs over every plan of the catalog and arbitrary             *)
(* non-negative usage: the run starts at the call of main.py:233.          *)

EgressFigures == {k * 50 * Milli : k \in 0..MaxEgressSteps}

InitCost ==
    /\ pc = "costs"
    /\ err = "none"
    /\ neon_api_key = <<"k", "1">>
    /\ project_id = <<"k", "1">>
    /\ webhook_url = <<"h", "/", "s", "l", "a", "c", "k">>
    /\ alert_mode_value = S_always
    /\ environ = <<>>
    /\ thresholds = NoThresholds
    /\ project = NoProject
    /\ plan \in DOMAIN PLAN_CATALOG
    /\ usage \in [compute_cu_hours : UsageFigures, storage_gb_month : UsageFigures,
                  egress_gb : EgressFigures]
    /\ costs = NoCosts
    /\ triggers = <<>>
    /\ evaluated = "no"
    /\ provider = <<>>
    /\ status = 0
    /\ apiCalls = 1
    /\ evalCalls = 0
    /\ webhookCalls = 0

NextCost == ComputeCosts

CostSpec == InitCost /\ [][NextCost]_vars

-----------------------------------------------------------------------------
(* Properties.                                                             *)

\* the ValueErrors main raises for the configuration
ConfigurationErrors ==
    {"NEON_API_KEY", "NEON_PROJECT_ID", "WEBHOOK_URL", "ALERT_MODE", "threshold_not_a_number",
     "always_with_thresholds", "no_thresholds", "plan", "unsupported_webhook_url"}

Absent(t) == t = <<>>
AllAbsent ==
    /\ Absent(thresholds.max_spend_usd)
    /\ Absent(thresholds.max_cu_usage)
    /\ Absent(thresholds.max_storage_gb_month)
    /\ Absent(thresholds.max_egress_gb)

\* C1: a run that aborted with a configuration error has made no webhook request.
C1_NoWebhookOnConfigError ==
    (pc = "error" /\ err \in ConfigurationErrors) => (webhookCalls = 0 /\ status = 0)

\* a run with triggers to report that aborted on the webhook URL, the last check before the send
C1_Witness ==
    /\ pc = "error"
    /\ err = "unsupported_webhook_url"
    /\ triggers # <<>>
    /\ webhookCalls = 0

\* C2 as stated: once evaluation returned an empty trigger list the run never
\* ends in error and never requests the webhook.
C2_Original ==
    (evaluated = "returned" /\ triggers = <<>>) => (pc # "error" /\ webhookCalls = 0)

\* C2 amended: once evaluation returned an empty trigger list the webhook is
\* never requested, and the run ends in error only for a webhook URL naming
\* neither provider; with a slack or discord URL it does not end in error.
C2_EmptyTriggersNoWebhook ==
    (evaluated = "returned" /\ triggers = <<>>) =>
        /\ webhookCalls = 0
        /\ pc \in {"provider", "notify", "done", "error"}
        /\ pc = "error" =>
              /\ err = "unsupported_webhook_url"
              /\ ~contains(lower(webhook_url), S_slack)
              /\ ~contains(lower(webhook_url), S_discord)

\* a run that returned from main with nothing to report
C2_Witness ==
    /\ evaluated = "returned"
    /\ triggers = <<>>
    /\ pc = "done"
    /\ alert_mode_value = S_thresholds
    /\ webhookCalls = 0

\* the figure each threshold is compared with, in the unit of the threshold
\* times Milli for the cost, and the threshold scaled alike
Figure(i) ==
    CASE i = 1 -> costs.compute_cost + costs.storage_cost + costs.egress_cost
      [] i = 2 -> usage.compute_cu_hours * Milli
      [] i = 3 -> usage.storage_gb_month * Milli
      [] i = 4 -> usage.egress_gb * Milli
Limit(i) == thresholds[ThresholdNames[i]]
Met(i) == ~Absent(Limit(i)) /\ Figure(i) >= Limit(i)[1] * Milli
ReasonNames == <<"total_cost>=", "compute_cu_hours>=", "storage_gb_month>=", "egress_gb>=">>
MetChecks == SelectSeq(<<1, 2, 3, 4>>, Met)
ExpectedTriggers == [k \in 1..Len(MetChecks) |-> <<ReasonNames[MetChecks[k]], Limit(MetChecks[k])[1]>>]

\* C3: in 'thresholds' mode with a threshold configured, the triggers returned
\* are exactly the reasons of the configured thresholds whose figure is greater
\* than or equal to them, in the order spend, compute, storage, egress.
C3_ThresholdTriggers ==
    (evaluated # "no" /\ alert_mode_value = S_thresholds /\ ~AllAbsent) =>
        /\ evaluated = "returned"
        /\ triggers = ExpectedTriggers
        /\ \A i \in 1..4 : Absent(Limit(i)) => \A k \in 1..Len(triggers) : triggers[k][1] # ReasonNames[i]

\* a figure equal to its threshold triggers, a later check triggers too, an
\* absent threshold and an unmet one do not
C3_Witness ==
    /\ evaluated = "returned"
    /\ alert_mode_value = S_thresholds
    /\ thresholds.max_spend_usd = <<Milli \div 2>>
    /\ costs.compute_cost + costs.storage_cost + costs.egress_cost = 500 * Milli
    /\ thresholds.max_cu_usage = <<Milli \div 2>>
    /\ usage.compute_cu_hours = 0
    /\ Absent(thresholds.max_storage_gb_month)
    /\ thresholds.max_egress_gb = <<0>>
    /\ triggers = << <<"total_cost>=", Milli \div 2>>, <<"egress_gb>=", 0>> >>

\* C4: in mode 'always' _evaluate_alerts returns the one fixed reason and
\* never raises, whatever the thresholds, usage and costs.
C4_AlwaysOneReason ==
    (evaluated # "no" /\ alert_mode_value = S_always) =>
        /\ evaluated = "returned"
        /\ triggers = << <<"alert_mode=always">> >>
        /\ err # "no_thresholds"

\* mode 'always' evaluated with zero usage, zero cost and no threshold
C4_Witness ==
    /\ evaluated = "returned"
    /\ alert_mode_value = S_always
    /\ AllAbsent
    /\ usage = NoUsage
    /\ costs = NoCosts
    /\ Len(triggers) = 1

\* C5: in mode 'thresholds' with the four thresholds absent _evaluate_alerts
\* raises the configuration error, returns no list, and the run ends in error
\* without a webhook request.
C5_NoThresholdsRaises ==
    (evaluated # "no" /\ alert_mode_value = S_thresholds /\ AllAbsent) =>
        /\ evaluated = "raised"
        /\ pc = "error"
        /\ err = "no_thresholds"
        /\ triggers = <<>>
        /\ webhookCalls = 0

\* the error raised although usage and costs are non-zero
C5_Witness ==
    /\ evaluated = "raised"
    /\ alert_mode_value = S_thresholds
    /\ AllAbsent
    /\ usage.egress_gb > 0
    /\ costs.compute_cost > 0
    /\ pc = "error"

\* C6: 'always' with a non-absent threshold, a zero one included, never gets
\* to the usage source or the evaluator and is rejected by the conflict check;
\* 'always' with the four thresholds absent passes the check.
C6_AlwaysConflict ==
    /\ [](alert_mode_value = S_always /\ ~AllAbsent =>
            /\ apiCalls = 0
            /\ evalCalls = 0
            /\ pc \in {"thresholds", "conflict", "error"}
            /\ pc = "error" => err \in {"threshold_not_a_number", "always_with_thresholds"})
    /\ [](err = "always_with_thresholds" => alert_mode_value = S_always /\ ~AllAbsent)
    /\ [][pc = "conflict" =>
            IF alert_mode_value = S_always /\ ~AllAbsent
            THEN pc' = "error" /\ err' = "always_with_thresholds"
            ELSE pc' = "fetch" /\ err' = "none"]_vars

\* 'always' rejected for a threshold supplied as zero
C6_Witness ==
    /\ pc = "error"
    /\ err = "always_with_thresholds"
    /\ alert_mode_value = S_always
    /\ thresholds.max_spend_usd = <<0>>
    /\ Absent(thresholds.max_cu_usage)
    /\ Absent(thresholds.max_storage_gb_month)
    /\ Absent(thresholds.max_egress_gb)
    /\ apiCalls = 0

\* C7: each cost is max(0, usage - free allowance) * unit price of the plan:
\* never negative, zero at or below the allowance, linear above it.
CategoryCost(cost, used, free, price) ==
    /\ cost >= 0
    /\ used <= free => cost = 0
    /\ used > free => cost = (used - free) * price
C7_Costs ==
    pc = "evaluate" =>
        /\ CategoryCost(costs.compute_cost, usage.compute_cu_hours,
                        PLAN_CATALOG[plan].free_compute_cu_hour, PLAN_CATALOG[plan].compute_cu_hour)
        /\ CategoryCost(costs.storage_cost, usage.storage_gb_month,
                        PLAN_CATALOG[plan].free_storage_gb_month, PLAN_CATALOG[plan].storage_gb_month)
        /\ CategoryCost(costs.egress_cost, usage.egress_gb,
                        PLAN_CATALOG[plan].free_egress_gb, PLAN_CATALOG[plan].egress_gb)

\* egress used but within the allowance costs nothing while compute is billed
C7_Witness ==
    /\ pc = "evaluate"
    /\ usage.egress_gb > 0
    /\ usage.egress_gb <= PLAN_CATALOG[plan].free_egress_gb
    /\ costs.egress_cost = 0
    /\ usage.compute_cu_hours > 0
    /\ costs.compute_cost > 0

\* C8 as stated: every threshold the evaluator is called with is absent or a
\* non-negative number.
C8_Original ==
    evaluated # "no" => \A i \in 1..4 : Absent(Limit(i)) \/ Limit(i)[1] >= 0

Blank(raw) == raw = <<>> \/ \A k \in 1..Len(raw[1]) : raw[1][k] \in {" ", "\t", "\n"}
Numeric(raw) == ~Blank(raw) /\ isFloatLiteral(strip(raw[1]))

\* C9: a threshold setting read as unset or blank is absent in the thresholds,
\* and one read as non-blank and not numeric ends the run with the
\* configuration error before the fetch, the costs and the evaluation.
C9_ThresholdParsing ==
    \A i \in 1..Len(environ) :
        /\ Blank(environ[i]) => Absent(Limit(i))
        /\ (~Blank(environ[i]) /\ ~Numeric(environ[i])) =>
              /\ pc = "error"
              /\ err = "threshold_not_a_number"
              /\ apiCalls = 0
              /\ evalCalls = 0
              /\ usage = NoUsage
              /\ costs = NoCosts
              /\ evaluated = "no"

\* a blank first setting left absent and a non-numeric later one aborting the run
C9_Witness ==
    /\ Len(environ) = 3
    /\ environ[1] = <<<<" ">>>>
    /\ Absent(thresholds.max_spend_usd)
    /\ ~Blank(environ[3])
    /\ ~Numeric(environ[3])
    /\ pc = "error"

\* C10: at most one fetch, one evaluation and one webhook request; a
\* non-success status ends the run in error after that one request.
C10_SingleShot ==
    /\ apiCalls <= 1
    /\ evalCalls <= 1
    /\ webhookCalls <= 1
    /\ status >= 300 => (pc = "error" /\ err = "delivery" /\ webhookCalls = 1)

\* a delivery that failed
C10_Witness ==
    /\ status >= 300
    /\ pc = "error"
    /\ webhookCalls = 1
    /\ apiCalls = 1
    /\ evalCalls = 1

====
